---- MODULE Spec2Model ----
(***************************************************************************)
(* Model of quarry/types/chunk.py: BlockArray, the palette-compressed      *)
(* bit-packed array of 4096 block ids, and LightArray.                     *)
(*                                                                         *)
(* Python integers are unbounded and the packed words are 64 bits wide,    *)
(* so an integer that takes part in the shift/mask arithmetic is modelled  *)
(* as the set of its 1-bit positions: x & y is intersection, x | y is      *)
(* union, x << k and x >> k move the positions.  Small integers (indices,  *)
(* widths, palette positions, global ids) are ordinary integers.           *)
(***************************************************************************)
EXTENDS Integers, Sequences, FiniteSets, TLC

\* ---------------------------------------------------------------- bounds
\* The array of the program holds 4096 cells in 64 * bits words of 64 bits
\* (Rows = 64).  The model keeps the word width and every bit width of the
\* program and bounds the number of cells: WordBits * Rows cells in
\* Rows * bits words.
Rows == 4
\* operations of one behaviour
MaxOps == 3
\* the global ids of a registry are below 2^MaxIdBits
MaxIdBits == 16
\* single writes of one scenario, and how many of the first of them may
\* bring an id of 256 or more
MaxWrites == 17
BigIdWrites == 3

\* ------------------------------------------------------ program constants
WordBits == 64
MinBits == 4
MaxPaletteBits == 8
Length == WordBits * Rows

\* ------------------------------------------------- integers as bit sets
Pow2(k) == 2 ^ k

ToBits(v) == {b \in 0..(MaxIdBits + 1) : (v \div Pow2(b)) % 2 = 1}

RECURSIVE ToInt(_)
ToInt(s) ==
  IF s = {} THEN 0
  ELSE LET b == CHOOSE x \in s : TRUE IN Pow2(b) + ToInt(s \ {b})

Shl(s, k) == {b + k : b \in s}
Shr(s, k) == {b - k : b \in {x \in s : x >= k}}
Ones(n) == 0..(n - 1)
U64 == Ones(WordBits)

\* ------------------------------------------------------------- registry
\* The registry (block_map) is an external collaborator of the array: it
\* gives the width of a cell in direct mode and translates descriptors.
Registry(max_bits) == [max_bits |-> max_bits]
encode_block(d) == d[2]
decode_block(id) == <<"block", id>>

\* ------------------------------------------------------------ the array
None == << -1 >>

\* Python list indexing: a negative index counts from the end, anything
\* outside [-len, len) raises IndexError (position -1 here).
ListPos(len, i) ==
  IF i >= len \/ i < -len THEN -1
  ELSE IF i < 0 THEN i + len ELSE i

BlockArray(block_map, data, bits, palette) ==
  [block_map |-> block_map, data |-> data, bits |-> bits, palette |-> palette]

empty(block_map) ==
  BlockArray(block_map, [w \in 0..(Rows * MinBits - 1) |-> {}], MinBits, <<0>>)

NWords(self) == Cardinality(DOMAIN self.data)

\* list.index: the first position holding val (0-based), -1 for ValueError
index(list, val) ==
  IF \E i \in 1..Len(list) : list[i] = val
  THEN (CHOOSE i \in 1..Len(list) :
          list[i] = val /\ \A j \in 1..(i - 1) : list[j] # val) - 1
  ELSE -1

Ok(v) == [err |-> "", val |-> v]
Raise(e) == [err |-> e, val |-> <<>>]
Done(self) == [self |-> self, err |-> ""]
Fail(self, e) == [self |-> self, err |-> e]

\* the words and offsets of cell n at the given width
Idx0(width, n) == (width * n) \div WordBits
Idx1(width, n) == (width * (n + 1) - 1) \div WordBits
Off0(width, n) == (width * n) % WordBits
Off1(width, n) == WordBits - Off0(width, n)

\* the tail of __getitem__: the palette lookup and the registry's decode
decode_field(self, val) ==
  IF self.palette # None
  THEN IF val >= Len(self.palette) THEN Raise("IndexError")
       ELSE Ok(decode_block(self.palette[val + 1]))
  ELSE Ok(decode_block(val))

\* the field of cell n, read from words p0 and p1 of data
read_field(self, n, p0, p1) ==
  ToInt((IF p0 = p1
         THEN Shr(self.data[p0], Off0(self.bits, n))
         ELSE Shr(self.data[p0], Off0(self.bits, n))
                \cup Shl(self.data[p1], Off1(self.bits, n)))
        \cap Ones(self.bits))

\* BlockArray.__getitem__ for an integer n
getitem(self, n) ==
  IF \/ ListPos(NWords(self), Idx0(self.bits, n)) < 0
     \/ ListPos(NWords(self), Idx1(self.bits, n)) < 0
  THEN Raise("IndexError")
  ELSE decode_field(self, read_field(self, n,
                      ListPos(NWords(self), Idx0(self.bits, n)),
                      ListPos(NWords(self), Idx1(self.bits, n))))

\* [self[o] for o in xrange(lo, hi)]: the descriptors of cells lo..hi-1,
\* or the error a read raises
getslice(self, lo, hi) ==
  IF \E o \in lo..(hi - 1) : getitem(self, o).err # ""
  THEN Raise("IndexError")
  ELSE Ok([k \in 1..(hi - lo) |-> getitem(self, lo + k - 1).val])

\* the index at which Sequence.__iter__ stops: the first one whose read
\* raises IndexError, which self[Length] always does
iter_stop(self) ==
  CHOOSE i \in 0..Length :
    /\ getitem(self, i).err # ""
    /\ \A j \in 0..(i - 1) : getitem(self, j).err = ""

\* set(self)
walk(self) == {getitem(self, i).val : i \in 0..(iter_stop(self) - 1)}

\* the logarithm rounded down instead of up
FloorLog2(n) ==
  CHOOSE b \in 0..30 : Pow2(b) <= n /\ n < Pow2(b + 1)

\* int(math.ceil(math.log(n, 2))) for n >= 1; the floating-point quotient
\* log(n)/log(2) rounds to the exact value for every n up to 10000
CeilLog2(n) ==
  CHOOSE b \in 0..30 : Pow2(b) >= n /\ (b = 0 \/ Pow2(b - 1) < n)

\* the descriptors of S whose ids lie in lo..hi-1, by ascending id
RECURSIVE SortIds(_, _, _)
SortIds(S, lo, hi) ==
  IF S = {} THEN <<>>
  ELSE IF hi = lo + 1 THEN <<CHOOSE x \in S : TRUE>>
  ELSE SortIds({x \in S : encode_block(x) < (lo + hi) \div 2},
               lo, (lo + hi) \div 2)
         \o SortIds({x \in S : encode_block(x) >= (lo + hi) \div 2},
                    (lo + hi) \div 2, hi)

SortAsc(S) == SortIds(S, 0, Pow2(MaxIdBits))

Reverse(s) == [i \in 1..Len(s) |-> s[Len(s) + 1 - i]]

\* The iteration order of a Python set is not specified: the palette that
\* repack() builds from set(self) comes in one of these orders.
Orders == {"asc", "desc"}
SetOrder(S, order) ==
  IF order = "desc" THEN Reverse(SortAsc(S)) ELSE SortAsc(S)

EncodeAll(seen) == [k \in 1..Len(seen) |-> encode_block(seen[k])]

NoReserve == -1

RECURSIVE repack(_, _, _)
RECURSIVE setitem(_, _, _)
RECURSIVE setrange(_, _, _, _)

\* the loop of the slice branch of __setitem__, cells lo..hi-1 in ascending
\* order: self[o] = val[o]; an error leaves the loop at once
setrange(r, lo, hi, val) ==
  IF r.err # "" \/ lo >= hi THEN r
  ELSE IF hi = lo + 1
  THEN IF lo >= Len(val) THEN Fail(r.self, "IndexError")
       ELSE setitem(r.self, lo, val[lo + 1])
  ELSE setrange(setrange(r, lo, (lo + hi) \div 2, val),
                (lo + hi) \div 2, hi, val)

\* the contents are saved and never loaded back
load_nothing(self, values, nbits, npal) ==
  Done(BlockArray(self.block_map, [w \in 0..(Rows * nbits - 1) |-> {}],
                  nbits, npal))

\* repack, "Load contents": self[:] = values into the re-allocated array
load(self, values, nbits, npal) ==
  IF values.err # "" THEN Fail(self, values.err)
  ELSE setrange(Done(BlockArray(self.block_map,
                                [w \in 0..(Rows * nbits - 1) |-> {}],
                                nbits, npal)),
                0, Length, values.val)

\* the early return taken only when the palette stays as well
reload_on_palette(self, nbits, npal) ==
  IF self.bits = nbits /\ self.palette = npal THEN Done(self)
  ELSE load(self, getslice(self, 0, Length), nbits, npal)

\* repack from "Nothing to do" on, with the new width and palette
reload(self, nbits, npal) ==
  IF self.bits = nbits THEN Done(self)
  ELSE load(self, getslice(self, 0, Length), nbits, npal)

\* direct mode keeps the computed width instead of the registry's
rebits_computed_width(self, palette, b0) ==
  IF b0 <= MaxPaletteBits
  THEN reload(self, IF b0 < MinBits THEN MinBits ELSE b0, palette)
  ELSE reload(self, b0, None)

\* the width is not raised to 4
rebits_unclamped(self, palette, b0) ==
  IF b0 <= MaxPaletteBits
  THEN reload(self, b0, palette)
  ELSE reload(self, self.block_map.max_bits, None)

\* the palette is kept when the array goes to direct mode
rebits_keep_palette(self, palette, b0) ==
  IF b0 <= MaxPaletteBits
  THEN reload(self, IF b0 < MinBits THEN MinBits ELSE b0, palette)
  ELSE reload(self, self.block_map.max_bits, palette)

\* repack, "Compute new bits"
rebits(self, palette, b0) ==
  IF b0 <= MaxPaletteBits
  THEN reload(self, IF b0 < MinBits THEN MinBits ELSE b0, palette)
  ELSE reload(self, self.block_map.max_bits, None)

\* repack, "Recompute the palette by walking all blocks", seen being the
\* descriptors of set(self) in iteration order
recompute(self, seen) == rebits(self, EncodeAll(seen), CeilLog2(Len(seen)))

\* the candidate size is taken from the largest id instead of the count
repack_by_id(self, reserve, order) ==
  IF reserve = NoReserve
  THEN recompute(self, SetOrder(walk(self), order))
  ELSE IF self.palette = None THEN Done(self)
  ELSE rebits(self, self.palette,
              CeilLog2(reserve + (CHOOSE x \in {self.palette[k] : k \in 1..Len(self.palette)} :
                         \A k \in 1..Len(self.palette) : self.palette[k] <= x)))

\* the reserve is left out of the candidate size
repack_unreserved(self, reserve, order) ==
  IF reserve = NoReserve
  THEN recompute(self, SetOrder(walk(self), order))
  ELSE IF self.palette = None THEN Done(self)
  ELSE rebits(self, self.palette, CeilLog2(Len(self.palette)))

\* BlockArray.repack; reserve = NoReserve is reserve=None
repack(self, reserve, order) ==
  IF reserve = NoReserve
  THEN recompute(self, SetOrder(walk(self), order))
  ELSE IF self.palette = None THEN Done(self)
  ELSE rebits(self, self.palette, CeilLog2(Len(self.palette) + reserve))

\* the high bits of a field that spans two words are dropped
store1_skip(self, n, val, p1) ==
  IF p1 < 0 THEN Fail(self, "IndexError") ELSE Done(self)

\* __setitem__, the second word of a field that spans two
store1(self, n, val, p1) ==
  IF p1 < 0 THEN Fail(self, "IndexError")
  ELSE Done([self EXCEPT !.data[p1] =
         (@ \ Shr(Ones(self.bits), Off1(self.bits, n)))
           \cup (Shr(Ones(self.bits), Off1(self.bits, n))
                   \cap Shr(ToBits(val), Off1(self.bits, n)))])

\* the first word is not cut to 64 bits
store0_unmasked(self, n, val, p0) ==
  [self EXCEPT !.data[p0] =
     (@ \ Shl(Ones(self.bits), Off0(self.bits, n)))
       \cup (Shl(Ones(self.bits), Off0(self.bits, n))
               \cap Shl(ToBits(val), Off0(self.bits, n)))]

\* the word is overwritten instead of masked
store0_clobber(self, n, val, p0) ==
  [self EXCEPT !.data[p0] =
     (U64 \cap Shl(Ones(self.bits), Off0(self.bits, n)))
       \cap Shl(ToBits(val), Off0(self.bits, n))]

\* __setitem__, the first word of the field
store0(self, n, val, p0) ==
  [self EXCEPT !.data[p0] =
     (@ \cap (U64 \ Shl(Ones(self.bits), Off0(self.bits, n))))
       \cup ((U64 \cap Shl(Ones(self.bits), Off0(self.bits, n)))
               \cap Shl(ToBits(val), Off0(self.bits, n)))]

\* __setitem__ from the computation of idx0 on: the masked write of val
store(self, n, val) ==
  IF ListPos(NWords(self), Idx0(self.bits, n)) < 0
  THEN Fail(self, "IndexError")
  ELSE IF Idx0(self.bits, n) = Idx1(self.bits, n)
  THEN Done(store0(self, n, val, ListPos(NWords(self), Idx0(self.bits, n))))
  ELSE store1(store0(self, n, val, ListPos(NWords(self), Idx0(self.bits, n))),
              n, val, ListPos(NWords(self), Idx1(self.bits, n)))

\* __setitem__ after repack(reserve=1) returned r: the id joins the palette
\* if there still is one
appended(r, n, id) ==
  IF r.err # "" THEN r
  ELSE IF r.self.palette # None
  THEN store([r.self EXCEPT !.palette = Append(@, id)], n,
             Len(r.self.palette))
  ELSE store(r.self, n, id)

\* the id joins the palette without the repack that makes room for it
setitem_unreserved(self, n, d) ==
  IF self.palette = None THEN store(self, n, encode_block(d))
  ELSE IF index(self.palette, encode_block(d)) >= 0
  THEN store(self, n, index(self.palette, encode_block(d)))
  ELSE appended(Done(self), n, encode_block(d))

\* BlockArray.__setitem__ for an integer n
setitem(self, n, d) ==
  IF self.palette = None THEN store(self, n, encode_block(d))
  ELSE IF index(self.palette, encode_block(d)) >= 0
  THEN store(self, n, index(self.palette, encode_block(d)))
  ELSE appended(repack(self, 1, "asc"), n, encode_block(d))

\* slice.indices(Length) for slice(a, b, None) with integer a and b
Clamp(a) == IF a < 0 THEN (IF a + Length < 0 THEN 0 ELSE a + Length)
            ELSE IF a > Length THEN Length ELSE a

\* BlockArray.__setitem__ for a slice a:b
setslice(self, a, b, val) == setrange(Done(self), Clamp(a), Clamp(b), val)

\* only the first palette entry is looked at
is_empty_first(self) ==
  IF self.palette # None THEN self.palette[1] = 0
  ELSE \A w \in DOMAIN self.data : self.data[w] = {}

\* BlockArray.is_empty
is_empty(self) ==
  IF self.palette # None THEN self.palette = <<0>>
  ELSE \A w \in DOMAIN self.data : self.data[w] = {}

\* --------------------------------------------------------- LightArray
\* The data of a LightArray is a list of integers, two cells to each; the
\* program's list holds 2048 of them, the model's Length \div 2.
BitAnd(x, y) == ToInt(ToBits(x) \cap ToBits(y))
BitOr(x, y) == ToInt(ToBits(x) \cup ToBits(y))

LightArray(data) == [data |-> data]

LightArray_empty == LightArray([i \in 0..(Length \div 2 - 1) |-> 0])

\* LightArray.__getitem__ for an integer n; divmod(n, 2) rounds down
LightArray_getitem(self, n) ==
  IF ListPos(Length \div 2, n \div 2) < 0 THEN Raise("IndexError")
  ELSE IF n % 2 = 0
  THEN Ok(BitAnd(self.data[ListPos(Length \div 2, n \div 2)], 15))
  ELSE Ok(self.data[ListPos(Length \div 2, n \div 2)] \div 16)

\* the other half of the byte is overwritten
LightArray_setitem_clobber(self, n, val) ==
  IF ListPos(Length \div 2, n \div 2) < 0 THEN Fail(self, "IndexError")
  ELSE IF n % 2 = 0
  THEN Done([self EXCEPT !.data[ListPos(Length \div 2, n \div 2)] = val])
  ELSE Done([self EXCEPT !.data[ListPos(Length \div 2, n \div 2)] =
               val * 16])

\* LightArray.__setitem__
LightArray_setitem(self, n, val) ==
  IF ListPos(Length \div 2, n \div 2) < 0 THEN Fail(self, "IndexError")
  ELSE IF n % 2 = 0
  THEN Done([self EXCEPT !.data[ListPos(Length \div 2, n \div 2)] =
               BitOr(BitAnd(@, 240), val)])
  ELSE Done([self EXCEPT !.data[ListPos(Length \div 2, n \div 2)] =
               BitOr(BitAnd(@, 15), val * 16)])

\* ------------------------------------------------------- state machine
\* block_map, data, bits, palette: the fields of the one BlockArray; old: the array
\* before the last operation; last: the last operation, its arguments, the
\* error it raised ("" for none), whether every operation so far was given
\* a cell of the array and raised nothing (clean), and the operation before
\* it (its name, reserve and error, and whether it changed the array), and
\* whether a repack with reserve was among the operations (reserved); ops:
\* operations so far; light: the data of the one LightArray.
VARIABLES block_map, data, bits, palette, light, old, last, ops

vars == <<block_map, data, bits, palette, light, old, last, ops>>

Self == BlockArray(block_map, data, bits, palette)

D(id) == <<"block", id>>

\* inputs of the operations: an index before the first cell, a cell whose
\* field spans two words at 14 bits (4) and one at 5 bits (12), and the
\* index after the last cell; a descriptor of the default id and another;
\* a reserve that widens the palette index and one that forces direct mode;
\* slices of fresh descriptors that fill the palette to 2^4 and 2^8 entries
\* from cell 0 on, and a slice of three that starts at cell 1
IndexChoices == {-1, 4, 12, Length}
DescChoices == {D(0), D(5)}
ReserveChoices == {20, 300}
Fresh(k) == [i \in 1..k |-> D(7 * i + 1)]
FillChoices == {Pow2(MinBits) - 1, Pow2(MaxPaletteBits) - 1}
SliceChoices == {<<0, k>> : k \in FillChoices} \cup {<<1, 3>>}

\* the array becomes r.self, and the operation is recorded with r.err
Record(r, op, n, d, b, reserve, order) ==
  /\ block_map' = r.self.block_map
  /\ data' = r.self.data
  /\ bits' = r.self.bits
  /\ palette' = r.self.palette
  /\ light' = light
  /\ old' = Self
  /\ last' = [op |-> op, n |-> n, d |-> d, b |-> b, reserve |-> reserve,
              order |-> order, err |-> r.err,
              clean |-> last.clean /\ r.err = "" /\ n \in 0..(Length - 1),
              reserved |-> last.reserved \/ reserve # NoReserve,
              before |-> <<last.op, last.reserve, last.err, old # Self>>]

\* the registry of the array: cells of 14 bits in direct mode
WorldRegistry == Registry(14)

Init ==
  /\ block_map = WorldRegistry
  /\ data = empty(WorldRegistry).data
  /\ bits = empty(WorldRegistry).bits
  /\ palette = empty(WorldRegistry).palette
  /\ light = LightArray_empty.data
  /\ old = empty(WorldRegistry)
  /\ last = [op |-> "empty", n |-> 0, d |-> D(0), b |-> 0,
             reserve |-> NoReserve, order |-> "", err |-> "",
             clean |-> TRUE, reserved |-> FALSE,
             before |-> <<"", NoReserve, "", FALSE>>]
  /\ ops = 0

\* self[n] = d
SetItem(n, d) ==
  /\ ops < MaxOps
  /\ ops' = ops + 1
  /\ Record(setitem(Self, n, d), "setitem", n, d, 0, NoReserve, "")

\* self[a:a + k] = k descriptors
SetSlice(a, k) ==
  /\ ops < MaxOps
  /\ ops' = ops + 1
  /\ Record(setslice(Self, a, a + k, Fresh(k)), "setslice", a, D(0), k,
           NoReserve, "")

\* self.repack(), the set being iterated in the given order
Repack(order) ==
  /\ ops < MaxOps
  /\ ops' = ops + 1
  /\ Record(repack(Self, NoReserve, order), "repack", 0, D(0), 0,
           NoReserve, order)

\* self.repack(reserve)
RepackReserve(reserve) ==
  /\ ops < MaxOps
  /\ ops' = ops + 1
  /\ Record(repack(Self, reserve, ""), "repack", 0, D(0), 0, reserve, "")

Next ==
  \/ \E n \in IndexChoices, d \in DescChoices : SetItem(n, d)
  \/ \E s \in SliceChoices : SetSlice(s[1], s[2])
  \/ \E order \in Orders : Repack(order)
  \/ \E reserve \in ReserveChoices : RepackReserve(reserve)

Spec == Init /\ [][Next]_vars

\* ------------------------------------------- scenarios of single writes
\* The same array under a registry of 16 bits.  Single writes bring ids the
\* array has not seen to cells it has not written, ops counting the cells
\* written; a slice of 255 ids can fill the palette first, with one single
\* write after it; a repack() can follow any write.
ScenarioRegistry == Registry(16)

\* the k-th cell written: 13 is odd, so the cells differ
ScenarioCell(k) == (13 * k) % Length

\* the ids of the write after k writes: a small one, or 256 and more
ScenarioIds(k) ==
  {D(k + 1)} \cup
    (IF k < BigIdWrites THEN {D(Pow2(MaxPaletteBits) + k)} ELSE {})

ScenarioInit ==
  /\ block_map = ScenarioRegistry
  /\ data = empty(ScenarioRegistry).data
  /\ bits = empty(ScenarioRegistry).bits
  /\ palette = empty(ScenarioRegistry).palette
  /\ light = LightArray_empty.data
  /\ old = empty(ScenarioRegistry)
  /\ last = [op |-> "empty", n |-> 0, d |-> D(0), b |-> 0,
             reserve |-> NoReserve, order |-> "", err |-> "",
             clean |-> TRUE, reserved |-> FALSE,
             before |-> <<"", NoReserve, "", FALSE>>]
  /\ ops = 0

ScenarioWrite(d) ==
  /\ ops < MaxWrites \/ last.op = "setslice"
  /\ ops' = ops + 1
  /\ Record(setitem(Self, ScenarioCell(ops), d), "setitem",
            ScenarioCell(ops), d, 0, NoReserve, "")

ScenarioFill(k) ==
  /\ ops = 0 /\ last.op = "empty"
  /\ ops' = ops + k
  /\ Record(setslice(Self, 0, k, Fresh(k)), "setslice", 0, D(0), k,
            NoReserve, "")

ScenarioRepack(order) ==
  /\ last.op \in {"setitem", "setslice"}
  /\ ops' = ops
  /\ Record(repack(Self, NoReserve, order), "repack", 0, D(0), 0,
            NoReserve, order)

ScenarioNext ==
  \/ \E d \in ScenarioIds(ops) : ScenarioWrite(d)
  \/ ScenarioFill(Pow2(MaxPaletteBits) - 1)
  \/ \E order \in Orders : ScenarioRepack(order)

ScenarioSpec == ScenarioInit /\ [][ScenarioNext]_vars

\* ------------------------------------------------- the light array
\* Writes to the LightArray: indices before the first cell, the two cells
\* of the first byte, the last cell and the index after it; values of four
\* bits and one of five.  last.clean: every value written so far was within
\* four bits.
LightIndexChoices == {-1, 0, 1, Length - 1, Length}
LightValueChoices == {0, 3, 9, 15, 16}

LightSelf == LightArray(light)

LightInit ==
  /\ block_map = WorldRegistry
  /\ data = empty(WorldRegistry).data
  /\ bits = empty(WorldRegistry).bits
  /\ palette = empty(WorldRegistry).palette
  /\ light = LightArray_empty.data
  /\ old = LightArray_empty
  /\ last = [op |-> "empty", n |-> 0, val |-> 0, err |-> "", clean |-> TRUE]
  /\ ops = 0

LightRecord(r, n, val) ==
  /\ light' = r.self.data
  /\ old' = LightSelf
  /\ last' = [op |-> "setitem", n |-> n, val |-> val, err |-> r.err,
              clean |-> last.clean /\ val \in 0..15]
  /\ UNCHANGED <<block_map, data, bits, palette>>

\* light[n] = val
LightSetItem(n, val) ==
  /\ ops < MaxOps
  /\ ops' = ops + 1
  /\ LightRecord(LightArray_setitem(LightSelf, n, val), n, val)

LightNext == \E n \in LightIndexChoices, val \in LightValueChoices :
               LightSetItem(n, val)

LightSpec == LightInit /\ [][LightNext]_vars

\* --------------------------------------------------------------- claims
Cells == 0..(Length - 1)
Reads(self) == [i \in Cells |-> getitem(self, i)]
Wrote == last.op = "setitem" /\ last.err = "" /\ last.n \in Cells
Repacked == last.op = "repack" /\ last.reserve = NoReserve
InPalette(self, id) == \E k \in 1..Len(self.palette) : self.palette[k] = id
AllZero(self) == \A i \in Cells : getitem(self, i) = Ok(D(0))
UsedIds(self) == {encode_block(getitem(self, i).val) : i \in Cells}

\* C1: a write at a cell followed by a read of that cell returns the
\* descriptor written, whatever the write did to the palette, the width or
\* the mode.
C1_RoundTrip == Wrote => getitem(Self, last.n) = Ok(last.d)

\* a write of an id the full 8-bit palette did not hold: the array went
\* from indirect to direct mode
C1_Witness == Wrote /\ old.palette # None /\ palette = None

\* C2: a repack call, with or without reserve, leaves the descriptor read
\* at every cell as it was.
C2_RepackPreserves == last.op = "repack" => Reads(Self) = Reads(old)

\* a repack() that took a direct-mode array holding non-default blocks back
\* to a palette
C2_Witness ==
  /\ Repacked
  /\ old.palette = None /\ palette # None
  /\ ~AllZero(Self)

\* C3: a write at cell i leaves the descriptor read at every other cell as
\* it was.
C3_WriteFrame ==
  Wrote => \A j \in Cells \ {last.n} : getitem(Self, j) = getitem(old, j)

\* a write that widened the cells from 4 to 5 bits and whose field spans
\* two words, next to cells that hold other blocks
C3_Witness ==
  /\ Wrote
  /\ old.bits = MinBits /\ bits = MinBits + 1
  /\ Idx0(bits, last.n) # Idx1(bits, last.n)
  /\ getitem(Self, last.n + 1) # Ok(D(0))

\* C4: a read or a write at an index outside [0, Length) raises the index
\* error; the read returns no descriptor and the write changes no cell.
C4_OutOfRangeFails ==
  /\ \A n \in IndexChoices \ Cells : getitem(Self, n).err = "IndexError"
  /\ (last.op = "setitem" /\ last.n \notin Cells) =>
       (last.err = "IndexError" /\ Reads(Self) = Reads(old))

\* C5: a write that raises leaves storage, bits and palette as they were.
C5_FailedWriteNoMutation ==
  (last.op = "setitem" /\ last.err # "") => Self = old

\* C6: is_empty() holds of the fresh array and fails right after a write of
\* a descriptor whose id is not 0, by an index or by a slice.
C6_IsEmpty ==
  /\ last.op = "empty" => is_empty(Self)
  /\ (last.op = "setitem" /\ last.err = "" /\ encode_block(last.d) # 0)
       => ~is_empty(Self)
  /\ (last.op = "setslice" /\ last.err = "") => ~is_empty(Self)

\* a write of a non-default block into a direct-mode array
C6_Witness ==
  /\ last.op = "setitem" /\ last.err = "" /\ encode_block(last.d) # 0
  /\ old.palette = None /\ palette = None

\* C7: after repack(), is_empty() holds exactly if every cell reads id 0.
C7_RepackMakesIsEmptyExact ==
  (last.clean /\ Repacked) => (is_empty(Self) <=> AllZero(Self))

\* C8: after repack(), a palette holds the ids the cells use, each once.
C8_RepackDropsUnused ==
  (last.clean /\ Repacked /\ palette # None) =>
     /\ {palette[k] : k \in 1..Len(palette)} = UsedIds(Self)
     /\ Len(palette) = Cardinality(UsedIds(Self))

\* C9: a repack() right after a repack() changes nothing: storage, bits and
\* palette stay as the first call left them.
C9_RepackIdempotent ==
  (Repacked /\ last.before[1] = "repack" /\ last.before[2] = NoReserve)
    => Self = old

\* the second of two repack() calls, the first of which changed the array
C9_Witness ==
  /\ Repacked
  /\ last.before[1] = "repack" /\ last.before[2] = NoReserve
  /\ last.before[4]

\* C10: a write of an id that a palette of 2^bits entries does not hold
\* leaves bits greater than it was.
C10_GrowthOnOverflow ==
  (/\ last.op = "setitem"
   /\ old.palette # None
   /\ Len(old.palette) = Pow2(old.bits)
   /\ ~InPalette(old, encode_block(last.d)))
    => bits > old.bits

\* such a write on a palette of 2^4 entries: the cells are 5 bits wide after
C10_Witness ==
  /\ Wrote
  /\ old.palette # None
  /\ Len(old.palette) = Pow2(MinBits) /\ old.bits = MinBits
  /\ ~InPalette(old, encode_block(last.d))
  /\ bits = MinBits + 1 /\ Len(palette) = Pow2(MinBits) + 1

\* the field stored for cell n
Field(self, n) ==
  read_field(self, n, ListPos(NWords(self), Idx0(self.bits, n)),
             ListPos(NWords(self), Idx1(self.bits, n)))

\* the cell the last operation wrote, if it was a write that raised nothing
Written ==
  IF last.op = "setitem" /\ last.err = ""
  THEN {IF last.n < 0 THEN last.n + Length ELSE last.n}
  ELSE {}

\* the last operation found a palette whose candidate size needs more than
\* 8 bits: a write of an id the palette did not hold, or a repack with reserve
OverflowWrite ==
  /\ last.op = "setitem" /\ old.palette # None
  /\ ~InPalette(old, encode_block(last.d))
  /\ CeilLog2(Len(old.palette) + 1) > MaxPaletteBits
OverflowReserve ==
  /\ last.op = "repack" /\ last.reserve # NoReserve /\ old.palette # None
  /\ CeilLog2(Len(old.palette) + last.reserve) > MaxPaletteBits

\* C11: a write or a repack with reserve whose candidate palette size needs
\* more than 8 bits leaves the array in direct mode: no palette, bits equal
\* to the registry's max_bits, every cell holding its global id itself and
\* the written cell holding the new id.
C11_SwitchToDirect ==
  (OverflowWrite \/ OverflowReserve) =>
     /\ palette = None
     /\ bits = block_map.max_bits
     /\ \A i \in Cells \ Written :
          Field(Self, i) = encode_block(getitem(old, i).val)
     /\ \A i \in Written : Field(Self, i) = encode_block(last.d)

\* a write of a new id into a palette of 256 entries: the cell holds the id,
\* and cells written before hold ids that no 8-bit index could be
C11_Witness ==
  /\ OverflowWrite /\ Wrote
  /\ palette = None /\ bits = block_map.max_bits
  /\ Field(Self, last.n) = encode_block(last.d)
  /\ \E i \in Cells : Field(Self, i) >= Pow2(MaxPaletteBits)

\* C12: from the empty array, distinct nonzero ids written to distinct
\* cells: the palette holds one entry more than the cells written, bits is
\* still 4 after 16 writes and is 5 after the 17th.
C12_ScenarioC ==
  ops <= MaxWrites =>
    /\ Len(palette) = ops + 1
    /\ ops <= Pow2(MinBits) => bits = MinBits
    /\ ops > Pow2(MinBits) => bits = MinBits + 1

\* C12 as amended: bits is 4 after 15 writes and 5 from the 16th write on,
\* the write that brings the 17th palette entry.
C12_ScenarioC16 ==
  ops <= MaxWrites =>
    /\ Len(palette) = ops + 1
    /\ ops < Pow2(MinBits) => bits = MinBits
    /\ ops >= Pow2(MinBits) => bits = MinBits + 1

\* the 17th write done: 18 palette entries in cells of 5 bits
C12_Witness ==
  /\ last.op = "setitem" /\ last.err = ""
  /\ ops = Pow2(MinBits) + 1
  /\ Len(palette) = Pow2(MinBits) + 2 /\ bits = MinBits + 1

\* the palette holds an id of 256 or more
HoldsBigId(self) ==
  /\ self.palette # None
  /\ \E k \in 1..Len(self.palette) : self.palette[k] >= Pow2(MaxPaletteBits)

\* the last operation was a repack() or a write that needed a new palette
\* entry, on a palette that held an id of 256 or more
AfterBigId ==
  /\ HoldsBigId(old)
  /\ \/ Repacked
     \/ last.op = "setitem" /\ ~InPalette(old, encode_block(last.d))

\* the candidate palette size of that operation
Candidate ==
  IF last.op = "repack" THEN Cardinality(UsedIds(old))
  ELSE Len(old.palette) + 1

\* C13: under a registry of 16 bits, once the palette holds an id of 256 or
\* more, the next repack or palette growth leaves the array in direct mode:
\* no palette and bits = 16.
C13_ScenarioD ==
  AfterBigId => (palette = None /\ bits = block_map.max_bits)

\* C13 as amended: the repack or palette growth leaves the array in direct
\* mode with bits = 16 if its candidate palette size exceeds 256, and in
\* indirect mode with bits at most 8 otherwise, whatever the ids are.
C13_DirectBySize ==
  AfterBigId =>
    IF Candidate > Pow2(MaxPaletteBits)
    THEN palette = None /\ bits = block_map.max_bits
    ELSE palette # None /\ bits <= MaxPaletteBits

\* a write that found 256 palette entries, ids of 256 and more among them,
\* under the registry of 16 bits
C13_Witness ==
  /\ AfterBigId /\ last.op = "setitem"
  /\ block_map = ScenarioRegistry
  /\ Candidate > Pow2(MaxPaletteBits)
  /\ palette = None /\ bits = 16

\* C14: bits is at least 4 and at most the registry's max_bits, and it is
\* max_bits whenever there is no palette.
C14_WidthMode ==
  /\ bits >= MinBits
  /\ bits <= block_map.max_bits
  /\ palette = None => bits = block_map.max_bits

\* a repack with reserve took a palette of 8-bit indices to direct mode
C14_Witness ==
  /\ last.op = "repack" /\ last.reserve # NoReserve
  /\ old.palette # None /\ old.bits = MaxPaletteBits
  /\ palette = None /\ bits = block_map.max_bits

\* C15: storage holds Rows * bits words (64 * bits in the program), each
\* within [0, 2^64).
C15_StorageSize ==
  /\ DOMAIN data = 0..(Rows * bits - 1)
  /\ \A w \in DOMAIN data : data[w] \subseteq U64

\* a write re-encoded the array to a width at which fields span two words,
\* and a word has its highest bit set
C15_Witness ==
  /\ last.op = "setitem" /\ last.err = ""
  /\ bits # old.bits /\ WordBits % bits # 0
  /\ NWords(Self) = Rows * bits
  /\ \E w \in DOMAIN data : (WordBits - 1) \in data[w]

\* C16: a LightArray write of a value outside [0, 15] at a cell raises an
\* error and leaves every byte of the data as it was.
C16_LightRejects ==
  (last.op = "setitem" /\ last.n \in Cells /\ last.val \notin 0..15) =>
     (last.err # "" /\ light = old.data)

LightReads(self) == [i \in Cells |-> LightArray_getitem(self, i)]

\* C17: after writes of values within [0, 15], a write of such a value at a
\* cell raises nothing, is read back at that cell, leaves the read of every
\* other cell as it was, and goes to the low half of byte n div 2 for an
\* even n and to the high half for an odd n, the other half staying.
C17_LightRoundTrip ==
  (last.op = "setitem" /\ last.clean /\ last.n \in Cells) =>
     /\ last.err = ""
     /\ LightArray_getitem(LightSelf, last.n) = Ok(last.val)
     /\ \A j \in Cells \ {last.n} :
          LightReads(LightSelf)[j] = LightReads(old)[j]
     /\ light[last.n \div 2] =
          IF last.n % 2 = 0
          THEN last.val + 16 * (old.data[last.n \div 2] \div 16)
          ELSE (old.data[last.n \div 2] % 16) + 16 * last.val

\* write(0, 9) then write(1, 3): byte 0 is 0x39
C17_Witness ==
  /\ last.op = "setitem" /\ last.clean
  /\ last.n = 1 /\ last.val = 3
  /\ LightArray_getitem(LightSelf, 0) = Ok(9)
  /\ light[0] = 57

\* the writes self[a + k] = vals[k] for k in lo..hi-1, one after the other
RECURSIVE WriteEach(_, _, _, _, _)
WriteEach(r, a, vals, lo, hi) ==
  IF r.err # "" \/ lo >= hi THEN r
  ELSE IF hi = lo + 1 THEN setitem(r.self, a + lo, vals[lo + 1])
  ELSE WriteEach(WriteEach(r, a, vals, lo, (lo + hi) \div 2),
                 a, vals, (lo + hi) \div 2, hi)

\* C18: a write of b - a descriptors to the cells a..b-1 raises nothing and
\* leaves the array as the single writes of the descriptors to a, a + 1, ...
\* in this order leave it.
C18_RangeWrite ==
  last.op = "setslice" =>
    /\ last.err = ""
    /\ Self = WriteEach(Done(old), last.n, Fresh(last.b), 0, last.b).self

\* C19: while there is a palette, it holds no id twice, it holds at most
\* 2^bits ids, and the field of every cell is a position of the palette.
C19_PaletteIndex ==
  palette # None =>
    /\ \A j, k \in 1..Len(palette) : palette[j] = palette[k] => j = k
    /\ Len(palette) <= Pow2(bits)
    /\ \A i \in Cells : Field(Self, i) < Len(palette)

\* a palette of 2^8 ids, the last of them in use
C19_Witness ==
  /\ palette # None /\ bits = MaxPaletteBits
  /\ Len(palette) = Pow2(bits)
  /\ \E i \in Cells : Field(Self, i) = Len(palette) - 1

\* C20: a write leaves bits at least what it was, and leaves an array
\* without palette without palette.
C20_WriteNeverShrinks ==
  last.op = "setitem" =>
    /\ bits >= old.bits
    /\ old.palette = None => palette = None

\* C20 as amended: a write, of one cell or of a slice, leaves an array
\* without palette without palette and at its width; it leaves bits at
\* least what it was if no repack with reserve came before it.
C20_WriteShrinksOnlyReserve ==
  last.op \in {"setitem", "setslice"} =>
    /\ old.palette = None => (palette = None /\ bits = old.bits)
    /\ ~last.reserved => bits >= old.bits

\* a write that widened the cells right after a repack(), and no repack
\* with reserve before
C20_Witness ==
  /\ last.op = "setitem" /\ ~last.reserved
  /\ last.before[1] = "repack"
  /\ bits > old.bits

====
